---- MODULE Spec2Model ----
(***************************************************************************)
(* Model of build-feeds.mjs: sitemap fetch, batched article scraping, and  *)
(* the RSS / Google News / image sitemap builders.                         *)
(*                                                                         *)
(* JavaScript strings are modelled as sequences of one-character strings,  *)
(* so that trim, truncateWords and esc are computed character by           *)
(* character.  Optional values (undefined / null) are records with a       *)
(* `has` flag.  Times are milliseconds since the epoch, as Date.getTime(). *)
(***************************************************************************)
EXTENDS Integers, Sequences, FiniteSets, TLC

VARIABLES
    pc,            \* position of run(): see PcValues
    enableImg,     \* ENABLE_IMAGE_SITEMAP, read once from the environment
    urls,          \* const urls = await fetchSitemapPostUrls()
    i,             \* loop index of the batch loop (0-based, as in the code)
    tasks,         \* the promises of slice.map(scrapeArticle), in slice order
    metas,         \* const metas = []
    now,           \* Date.now() as read by buildNewsSitemap
    files,         \* files written in the working directory: name -> entries
    exitCode,      \* process exit status (-1 while running)
    stderr,        \* what console.error printed in run().catch
    started,       \* history: URLs whose scrapeArticle call has begun
    settled,       \* history: URL -> how its scrape ended
    arg,           \* argument of the pure function under test
    ret            \* its result

pipeVars == <<pc, enableImg, urls, i, tasks, metas, now, files, exitCode,
              stderr, started, settled>>
fnVars == <<arg, ret>>
vars == <<pc, enableImg, urls, i, tasks, metas, now, files, exitCode,
          stderr, started, settled, arg, ret>>

(***************************************************************************)
(* Sequence helpers                                                        *)
(***************************************************************************)
Range(s) == {s[k] : k \in 1..Len(s)}

Min(a, b) == IF a <= b THEN a ELSE b

\* Array.prototype.slice(from, to) with 0 <= from, 0-based, end exclusive
Slice(s, from, to) == SubSeq(s, from + 1, Min(to, Len(s)))

RECURSIVE Concat(_)
Concat(ss) == IF ss = <<>> THEN <<>> ELSE Head(ss) \o Concat(Tail(ss))

SeqsUpTo(S, n) == UNION {[1..k -> S] : k \in 0..n}

(***************************************************************************)
(* Optional values                                                         *)
(***************************************************************************)
Some(v) == [has |-> TRUE, v |-> v]
None == [has |-> FALSE, v |-> <<>>]
\* JavaScript truthiness of an optional string: undefined and '' are falsy
Truthy(o) == o.has /\ o.v # <<>>
\* a || b  on optional strings
OrElse(a, b) == IF Truthy(a) THEN a ELSE b

(***************************************************************************)
(* Utils: esc                                                              *)
(***************************************************************************)
AMP == <<"&", "a", "m", "p", ";">>
LT == <<"&", "l", "t", ";">>
GT == <<"&", "g", "t", ";">>
QUOT == <<"&", "q", "u", "o", "t", ";">>
APOS == <<"&", "a", "p", "o", "s", ";">>

\* String.prototype.replace(/c/g, to) for a one-character pattern
RECURSIVE ReplaceAll(_, _, _)
ReplaceAll(s, c, to) ==
    IF s = <<>> THEN <<>>
    ELSE (IF Head(s) = c THEN to ELSE <<Head(s)>>) \o ReplaceAll(Tail(s), c, to)

\* A slip in the order of the passes: & is escaped last
escAmpLast(s) ==
    ReplaceAll(ReplaceAll(ReplaceAll(ReplaceAll(ReplaceAll(s,
        "<", LT), ">", GT), "\"", QUOT), "'", APOS), "&", AMP)

esc(s) ==
    ReplaceAll(ReplaceAll(ReplaceAll(ReplaceAll(ReplaceAll(s,
        "&", AMP), "<", LT), ">", GT), "\"", QUOT), "'", APOS)

(***************************************************************************)
(* Utils: truncateWords                                                    *)
(***************************************************************************)
WS == {" ", "\t"}
\* U+2026, one UTF-16 code unit
ELLIPSIS == "..."

RECURSIVE TrimStart(_)
TrimStart(s) ==
    IF s # <<>> /\ Head(s) \in WS THEN TrimStart(Tail(s)) ELSE s

RECURSIVE TrimEnd(_)
TrimEnd(s) ==
    IF s # <<>> /\ s[Len(s)] \in WS THEN TrimEnd(SubSeq(s, 1, Len(s) - 1)) ELSE s

\* String.prototype.trim()
Trim(s) == TrimEnd(TrimStart(s))

\* str.replace(/\s+/g, ' ')
RECURSIVE CollapseWs(_)
CollapseWs(s) ==
    IF s = <<>> THEN <<>>
    ELSE IF Head(s) \in WS
         THEN <<" ">> \o CollapseWs(TrimStart(s))
         ELSE <<Head(s)>> \o CollapseWs(Tail(s))

\* String.prototype.lastIndexOf(c): 0-based, -1 when absent
LastIndexOf(s, c) ==
    LET hits == {k \in 1..Len(s) : s[k] = c}
    IN  IF hits = {} THEN -1
        ELSE (CHOOSE k \in hits : \A j \in hits : j <= k) - 1

\* A slip: the cut is always made at max, ignoring the last space
truncateWordsHardCut(str, max) ==
    IF str = <<>> THEN <<>>
    ELSE LET clean == Trim(CollapseWs(str))
         IN  IF Len(clean) <= max THEN clean
             ELSE Trim(Slice(clean, 0, max)) \o <<ELLIPSIS>>

truncateWords(str, max) ==
    IF str = <<>> THEN <<>>
    ELSE LET clean == Trim(CollapseWs(str))
             cut == Slice(clean, 0, max + 1)
             lastSpace == LastIndexOf(cut, " ")
         IN  IF Len(clean) <= max THEN clean
             ELSE Trim(IF lastSpace > 0 THEN Slice(cut, 0, lastSpace)
                                         ELSE Slice(cut, 0, max))
                  \o <<ELLIPSIS>>

(***************************************************************************)
(* Scraped pages.  A page is what the cheerio selectors of scrapeArticle   *)
(* read from the HTML:                                                     *)
(*   ogTitle, metaDesc, ogDesc : attr('content'), undefined when no tag    *)
(*   h1, titleTag, p           : text() of the first match ('' when none)  *)
(*   pubProp .. timeAttr       : date strings (see DateSig)                *)
(*   ld                        : the application/ld+json script blocks     *)
(*   metaImgs                  : og:image:secure_url, og:image,            *)
(*                               twitter:image, link[rel=image_src]        *)
(*   imgs                      : src of the img elements, document order   *)
(***************************************************************************)
\* A date string as found in the page: absent attribute, empty string, a
\* string Date cannot parse, or a string Date parses to t milliseconds.
SigAbsent == [kind |-> "absent", t |-> 0]
SigEmpty == [kind |-> "empty", t |-> 0]
SigInvalid == [kind |-> "invalid", t |-> 0]
SigDate(t) == [kind |-> "valid", t |-> t]
SigTruthy(sig) == sig.kind \in {"invalid", "valid"}
SigOr(a, b) == IF SigTruthy(a) THEN a ELSE b

NoDate == [has |-> FALSE, t |-> 0]
DateOf(t) == [has |-> TRUE, t |-> t]

parseFirstDate(value) ==
    IF ~SigTruthy(value) THEN NoDate
    ELSE IF value.kind = "valid" THEN DateOf(value.t) ELSE NoDate

\* An image reference: the attribute text and what new URL(v, base) gives
\* (abs.has = FALSE when the URL constructor throws).
NoRef == [has |-> FALSE, v |-> <<>>, abs |-> None]
Ref(v) == [has |-> TRUE, v |-> v, abs |-> Some(<<"h", ":">> \o v)]
BadRef(v) == [has |-> TRUE, v |-> v, abs |-> None]
RefTruthy(r) == r.has /\ r.v # <<>>

toAbsUrl(r) == r.abs

\* first truthy reference of a list of attribute values, else null
RECURSIVE FirstRef(_)
FirstRef(rs) ==
    IF rs = <<>> THEN NoRef
    ELSE IF RefTruthy(Head(rs)) THEN Head(rs) ELSE FirstRef(Tail(rs))

\* new Set(...) insertion order: append unless already present
RECURSIVE Dedupe(_)
Dedupe(s) ==
    IF s = <<>> THEN <<>>
    ELSE LET init == Dedupe(SubSeq(s, 1, Len(s) - 1))
             last == s[Len(s)]
         IN  IF last \in Range(init) THEN init ELSE Append(init, last)

\* the absolute URLs of the img elements that have a resolvable src
RECURSIVE AbsOfImgs(_)
AbsOfImgs(rs) ==
    IF rs = <<>> THEN <<>>
    ELSE (IF RefTruthy(Head(rs)) /\ toAbsUrl(Head(rs)).has
          THEN <<toAbsUrl(Head(rs)).v>> ELSE <<>>) \o AbsOfImgs(Tail(rs))

\* the for..of loop over one parsed ld+json block
RECURSIVE LdItems(_, _)
LdItems(items, pm) ==
    IF items = <<>> THEN pm
    ELSE LET it == Head(items)
             p1 == IF ~SigTruthy(pm.published) /\ SigTruthy(it.datePublished)
                   THEN it.datePublished ELSE pm.published
             m1 == IF ~SigTruthy(pm.modified) /\ SigTruthy(it.dateModified)
                   THEN it.dateModified ELSE pm.modified
             nx == [published |-> p1, modified |-> m1]
         IN  IF SigTruthy(p1) /\ SigTruthy(m1) THEN nx
             ELSE LdItems(Tail(items), nx)

\* $('script[type="application/ld+json"]').each(...): invalid blocks skipped
RECURSIVE LdBlocks(_, _)
LdBlocks(blocks, pm) ==
    IF blocks = <<>> THEN pm
    ELSE LdBlocks(Tail(blocks),
                  IF Head(blocks).valid THEN LdItems(Head(blocks).items, pm)
                  ELSE pm)

MAX_IMAGES_PER_URL == 5
DESC_MAX == 220

\* const title = (ogTitle || h1 || titleTag || url).trim()
title(page, url) ==
    Trim(OrElse(OrElse(OrElse(page.ogTitle, Some(Trim(page.h1))),
                       Some(Trim(page.titleTag))), Some(url)).v)

description(page) ==
    LET desc == Trim(OrElse(OrElse(page.metaDesc, page.ogDesc), Some(<<>>)).v)
    IN  IF desc = <<>> THEN truncateWords(Trim(page.p), DESC_MAX)
        ELSE truncateWords(desc, DESC_MAX)

publishedModified(page) ==
    LET pm0 == [published |-> SigOr(page.pubProp, page.pubName),
                modified |-> SigOr(page.modProp, page.modName)]
        pm1 == IF ~SigTruthy(pm0.published) \/ ~SigTruthy(pm0.modified)
               THEN LdBlocks(page.ld, pm0) ELSE pm0
    IN  [published |-> IF ~SigTruthy(pm1.published) /\ SigTruthy(page.timeAttr)
                       THEN page.timeAttr ELSE pm1.published,
         modified |-> pm1.modified]

\* the record of the catch branch
degraded(url) ==
    [url |-> url, title |-> url, desc |-> <<>>, date |-> NoDate,
     lastmod |-> NoDate, image |-> None, images |-> <<>>]

\* the try branch of scrapeArticle, after getText(url) has resolved
scrapeParsed(url, page) ==
    LET pm == publishedModified(page)
        pubDate == parseFirstDate(pm.published)
        modDate == parseFirstDate(pm.modified)
        lastmod == IF modDate.has THEN modDate ELSE pubDate
        meta == FirstRef(page.metaImgs)
        img == IF RefTruthy(meta) THEN meta ELSE FirstRef(page.imgs)
        imageAbs == IF RefTruthy(img) THEN toAbsUrl(img) ELSE None
        allImg == Dedupe((IF imageAbs.has THEN <<imageAbs.v>> ELSE <<>>)
                         \o AbsOfImgs(page.imgs))
    IN  [url |-> url, title |-> title(page, url), desc |-> description(page),
         date |-> pubDate, lastmod |-> lastmod, image |-> imageAbs,
         images |-> Slice(allImg, 0, MAX_IMAGES_PER_URL)]

(***************************************************************************)
(* Config                                                                  *)
(***************************************************************************)
\* Number(process.env.X || default).  The defaults are 50 items and 8
\* concurrent requests; the run modelled is configured with 2 and 2, so that
\* a sitemap of three posts fills one group, starts a second and exceeds the
\* RSS limit.
MAX_RSS_ITEMS == 2
MAX_CONCURRENCY == 2
HOUR == 3600 * 1000
NEWS_WINDOW_MS == 48 * 3600 * 1000
\* .slice(0, 1000) of buildNewsSitemap
NEWS_MAX_URLS == 1000
NEWS_TITLE_MAX == 160

(***************************************************************************)
(* Inputs of a run: the sitemap document and the pages                     *)
(***************************************************************************)
MaxLocs == 3

\* stands for "https://www.seumestrefinanceiro.com.br/post/"
POST_PREFIX == <<"P", "/">>
PostUrls == {POST_PREFIX \o <<"1">>, POST_PREFIX \o <<"2">>, POST_PREFIX \o <<"3">>}
\* what u.loc may be: a post URL, another page of the site, or missing
Locs == PostUrls \cup {<<"H", "/">>, <<>>}
SitemapDocs == SeqsUpTo(Locs, MaxLocs)

Now0 == 100 * HOUR
\* Date.now() when the news sitemap is built: Page47h is then 47 or exactly
\* 48 hours old, Page49h 49 or 50
Nows == {Now0, Now0 + HOUR}

EmptyPage ==
    [ogTitle |-> None, h1 |-> <<>>, titleTag |-> <<>>,
     metaDesc |-> None, ogDesc |-> None, p |-> <<>>,
     pubProp |-> SigAbsent, pubName |-> SigAbsent,
     modProp |-> SigAbsent, modName |-> SigAbsent,
     ld |-> <<>>, timeAttr |-> SigAbsent,
     metaImgs |-> <<NoRef, NoRef, NoRef, NoRef>>, imgs |-> <<>>]

\* published 47 hours before Now0 in a structured-data block that follows
\* an unparseable one; og:title, meta description, og:image
Page47h ==
    [EmptyPage EXCEPT !.ogTitle = Some(<<"A", "&", "B">>),
                      !.metaDesc = Some(<<"d">>),
                      !.ld = << [valid |-> FALSE, items |-> <<>>],
                                [valid |-> TRUE, items |->
                                   << [datePublished |-> SigDate(Now0 - 47 * HOUR),
                                       dateModified |-> SigAbsent] >>] >>,
                      !.metaImgs = <<NoRef, Ref(<<"i">>), NoRef, NoRef>>]
\* published 49 hours before Now0 (meta tag), modified later; title from h1
Page49h ==
    [EmptyPage EXCEPT !.h1 = <<" ", "C">>,
                      !.pubProp = SigDate(Now0 - 49 * HOUR),
                      !.modName = SigDate(Now0 - 1 * HOUR),
                      !.imgs = <<BadRef(<<":">>), Ref(<<"j">>), Ref(<<"j">>)>>]
\* no date signal at all (one unparseable time element), title element only
PageNoDate ==
    [EmptyPage EXCEPT !.titleTag = <<"D">>, !.timeAttr = SigInvalid,
                      !.p = <<"x", " ", " ", "y">>]
\* a date before 1970 in a time element: getTime() is negative
Page1969 ==
    [EmptyPage EXCEPT !.ogTitle = Some(<<"E">>),
                      !.timeAttr = SigDate(0 - HOUR)]
PipePages == {Page47h, Page49h, PageNoDate, Page1969}

(***************************************************************************)
(* 1) fetchSitemapPostUrls                                                 *)
(***************************************************************************)
isPostUrl(u) ==
    Len(u) >= Len(POST_PREFIX) /\ SubSeq(u, 1, Len(POST_PREFIX)) = POST_PREFIX

\* .filter(Boolean).filter(isPostUrl), then Array.from(new Set(urls))
fetchSitemapPostUrls(doc) ==
    LET NonEmpty(u) == u # <<>>
    IN  Dedupe(SelectSeq(SelectSeq(doc, NonEmpty), isPostUrl))

(***************************************************************************)
(* getText: the AbortController timer is armed from the call until the     *)
(* finally block, which runs after fetch and r.text() have both settled.   *)
(***************************************************************************)
\* A slip: clearTimeout right after fetch resolves, before the body is read
TimerArmedConnectOnly(st) == st = "connecting"

TimerArmed(st) == st \in {"connecting", "reading"}

(***************************************************************************)
(* 3) Builders                                                             *)
(***************************************************************************)
\* stable insertion of x into a list sorted by descending k
RECURSIVE InsertDesc(_, _)
InsertDesc(sorted, x) ==
    IF sorted = <<>> THEN <<x>>
    ELSE IF Head(sorted).k >= x.k
         THEN <<Head(sorted)>> \o InsertDesc(Tail(sorted), x)
         ELSE <<x>> \o sorted

\* Array.prototype.sort((a, b) => b.k - a.k): stable, descending
RECURSIVE SortDesc(_)
SortDesc(s) ==
    IF s = <<>> THEN <<>>
    ELSE InsertDesc(SortDesc(SubSeq(s, 1, Len(s) - 1)), s[Len(s)])

Unkey(s) == [k \in 1..Len(s) |-> s[k].v]

\* sortDate: m.date ? m.date.getTime() : 0
sortDate(m) == IF m.date.has THEN m.date.t ELSE 0

\* const ordered = metas.map(...).sort((a, b) => b.sortDate - a.sortDate)
ordered(ms) ==
    Unkey(SortDesc([k \in 1..Len(ms) |-> [k |-> sortDate(ms[k]), v |-> ms[k]]]))

rssItems(ms) == Slice(ordered(ms), 0, MAX_RSS_ITEMS)

\* the <item> elements of buildRSS
buildRSS(items) ==
    [k \in 1..Len(items) |->
        [title |-> esc(items[k].title),
         link |-> esc(items[k].url),
         guid |-> esc(items[k].url),
         pubDate |-> items[k].date,
         description |-> IF items[k].desc # <<>>
                         THEN Some(esc(items[k].desc)) ELSE None,
         media |-> IF items[k].image.has
                   THEN Some(esc(items[k].image.v)) ELSE None]]

\* A slip: the window test is dropped, any dated article is fresh
isFreshAnyDate(a, nowMs, windowMs) == a.date.has

\* a.date && a.date.getTime() >= cutoff, cutoff = Date.now() - windowMs
isFresh(a, nowMs, windowMs) == a.date.has /\ a.date.t >= nowMs - windowMs

fresh(articles, nowMs, windowMs) ==
    LET Keep(a) == isFresh(a, nowMs, windowMs)
        kept == SelectSeq(articles, Keep)
    IN  Slice(Unkey(SortDesc([k \in 1..Len(kept) |->
                                 [k |-> kept[k].date.t, v |-> kept[k]]])),
              0, NEWS_MAX_URLS)

\* the <url> elements of buildNewsSitemap
buildNewsSitemap(articles, nowMs, windowMs) ==
    LET f == fresh(articles, nowMs, windowMs)
    IN  [k \in 1..Len(f) |->
            [loc |-> esc(f[k].url),
             publication_date |-> f[k].date.t,
             title |-> esc(truncateWords(f[k].title, NEWS_TITLE_MAX))]]

\* the <url> elements of buildImageSitemap for the pages that have images
buildImageSitemap(ms) ==
    LET HasImgs(m) == Len(m.images) > 0
        pages == SelectSeq(ms, HasImgs)
    IN  [k \in 1..Len(pages) |->
            [loc |-> esc(pages[k].url),
             lastmod |-> pages[k].lastmod,
             images |-> [j \in 1..Len(pages[k].images) |-> esc(pages[k].images[j])]]]

(***************************************************************************)
(* 4) run(): the state machine                                             *)
(*                                                                         *)
(* pc: "sitemap_connect"  awaiting fetch(SOURCE_SITEMAP)                   *)
(*     "sitemap_body"     awaiting r.text() of the sitemap                 *)
(*     "group"            awaiting Promise.all(slice.map(scrapeArticle))   *)
(*     "sleep"            awaiting sleep(150)                              *)
(*     "write_rss" / "write_news" / "write_img"   awaiting fs.writeFile    *)
(*     "log"              the summary lines                                *)
(*     "exited"           the process has ended                            *)
(* A task is one call of scrapeArticle: connecting (awaiting fetch),       *)
(* reading (awaiting r.text()), fulfilled or rejected; doneAt is the       *)
(* number of tasks of the group that had settled before it.                *)
(***************************************************************************)
NoFiles == [n \in {} |-> <<>>]

PipeInit ==
    /\ pc = "sitemap_connect"
    /\ enableImg \in BOOLEAN
    /\ urls = <<>>
    /\ i = 0
    /\ tasks = <<>>
    /\ metas = <<>>
    /\ now = 0
    /\ files = NoFiles
    /\ exitCode = -1
    /\ stderr = ""
    /\ started = {}
    /\ settled = [u \in {} |-> ""]

\* A slip: the handler logs the error and lets the process end normally
RunRejectedExitZero(err) ==
    /\ pc' = "exited"
    /\ exitCode' = 0
    /\ stderr' = err

\* run().catch(err => { console.error(err); process.exit(1); })
RunRejected(err) ==
    /\ pc' = "exited"
    /\ exitCode' = 1
    /\ stderr' = err

\* A slip: a failure inside scrapeArticle propagates to the caller
scrapeCatchRethrow(url) == [st |-> "rejected", rec |-> degraded(url)]

\* } catch { return { url, title: url, desc: '', ... } }
scrapeCatch(url) == [st |-> "fulfilled", rec |-> degraded(url)]

SettledCount == Cardinality({k \in 1..Len(tasks) : tasks[k].st \in {"fulfilled", "rejected"}})

\* task k settles with outcome o (st, rec); how is the history label
Settle(k, o, how) ==
    /\ tasks' = [tasks EXCEPT ![k] = [url |-> tasks[k].url, st |-> o.st,
                                      rec |-> o.rec, doneAt |-> SettledCount]]
    /\ settled' = [u \in DOMAIN settled \cup {tasks[k].url} |->
                      IF u = tasks[k].url THEN how ELSE settled[u]]

\* the loop test and what follows it up to the next await: either the next
\* slice is mapped through scrapeArticle (each call runs up to its fetch),
\* or the loop is left and rss.xml is built and its write begun
EnterLoop(us, idx) ==
    IF idx < Len(us)
    THEN LET slice == Slice(us, idx, idx + MAX_CONCURRENCY)
         IN  /\ pc' = "group"
             /\ tasks' = [k \in 1..Len(slice) |->
                             [url |-> slice[k], st |-> "connecting",
                              rec |-> degraded(slice[k]), doneAt |-> 0]]
             /\ started' = started \cup Range(slice)
    ELSE /\ pc' = "write_rss"
         /\ tasks' = <<>>
         /\ started' = started

---------------------------------------------------------------------------
\* fetch(SOURCE_SITEMAP) rejects: network error
SitemapNetworkError ==
    /\ pc = "sitemap_connect"
    /\ RunRejected("fetch failed")
    /\ UNCHANGED <<enableImg, urls, i, tasks, metas, now, files, started,
                   settled, arg, ret>>

\* the FETCH_TIMEOUT timer fires while the sitemap is being fetched or read
SitemapTimeout ==
    /\ pc \in {"sitemap_connect", "sitemap_body"}
    /\ TimerArmed(IF pc = "sitemap_connect" THEN "connecting" ELSE "reading")
    /\ RunRejected("AbortError")
    /\ UNCHANGED <<enableImg, urls, i, tasks, metas, now, files, started,
                   settled, arg, ret>>

\* fetch resolves: if (!r.ok) throw, else await r.text()
SitemapResponse ==
    /\ pc = "sitemap_connect"
    /\ \E ok \in BOOLEAN :
          IF ok THEN /\ pc' = "sitemap_body"
                     /\ UNCHANGED <<exitCode, stderr>>
                ELSE RunRejected("GET status")
    /\ UNCHANGED <<enableImg, urls, i, tasks, metas, now, files, started,
                   settled, arg, ret>>

\* r.text() rejects while the sitemap body is read
SitemapBodyError ==
    /\ pc = "sitemap_body"
    /\ RunRejected("body failed")
    /\ UNCHANGED <<enableImg, urls, i, tasks, metas, now, files, started,
                   settled, arg, ret>>

\* the sitemap text arrives: parse, filter, de-duplicate, enter the loop
SitemapBody ==
    /\ pc = "sitemap_body"
    /\ \E doc \in SitemapDocs :
          /\ urls' = fetchSitemapPostUrls(doc)
          /\ EnterLoop(urls', 0)
    /\ i' = 0
    /\ UNCHANGED <<enableImg, metas, now, files, exitCode, stderr, settled, arg, ret>>

\* fetch(url) of task k rejects: network error
PageNetworkError ==
    /\ pc = "group"
    /\ \E k \in 1..Len(tasks) :
          /\ tasks[k].st = "connecting"
          /\ Settle(k, scrapeCatch(tasks[k].url), "error")
    /\ UNCHANGED <<pc, enableImg, urls, i, metas, now, files, exitCode,
                   stderr, started, arg, ret>>

\* fetch(url) of task k resolves: !r.ok throws, else r.text() is awaited
PageResponse ==
    /\ pc = "group"
    /\ \E k \in 1..Len(tasks), ok \in BOOLEAN :
          /\ tasks[k].st = "connecting"
          /\ IF ok THEN /\ tasks' = [tasks EXCEPT ![k].st = "reading"]
                        /\ UNCHANGED settled
                   ELSE Settle(k, scrapeCatch(tasks[k].url), "error")
    /\ UNCHANGED <<pc, enableImg, urls, i, metas, now, files, exitCode,
                   stderr, started, arg, ret>>

\* r.text() of task k rejects
PageBodyError ==
    /\ pc = "group"
    /\ \E k \in 1..Len(tasks) :
          /\ tasks[k].st = "reading"
          /\ Settle(k, scrapeCatch(tasks[k].url), "error")
    /\ UNCHANGED <<pc, enableImg, urls, i, metas, now, files, exitCode,
                   stderr, started, arg, ret>>

\* the HTML of task k arrives: the page is parsed into a record, or
\* something in the try block throws and the catch branch answers
PageBody ==
    /\ pc = "group"
    /\ \E k \in 1..Len(tasks), page \in PipePages, throws \in BOOLEAN :
          /\ tasks[k].st = "reading"
          /\ IF throws
             THEN Settle(k, scrapeCatch(tasks[k].url), "error")
             ELSE Settle(k, [st |-> "fulfilled",
                             rec |-> scrapeParsed(tasks[k].url, page)], "ok")
    /\ UNCHANGED <<pc, enableImg, urls, i, metas, now, files, exitCode,
                   stderr, started, arg, ret>>

\* the FETCH_TIMEOUT timer of task k fires: ac.abort() rejects the pending
\* fetch or body read with an AbortError
PageTimeout(k) ==
    /\ pc = "group"
    /\ k \in 1..Len(tasks)
    /\ tasks[k].st \in {"connecting", "reading"}
    /\ TimerArmed(tasks[k].st)
    /\ Settle(k, scrapeCatch(tasks[k].url),
              IF tasks[k].st = "connecting" THEN "timeout_connect"
                                            ELSE "timeout_body")
    /\ UNCHANGED <<pc, enableImg, urls, i, metas, now, files, exitCode,
                   stderr, started, arg, ret>>

PageTimeouts == \E k \in 1..MAX_CONCURRENCY : PageTimeout(k)

\* A slip: the results are taken in completion order
batchByCompletion(ts) ==
    [n \in 1..Len(ts) |-> ts[CHOOSE k \in 1..Len(ts) : ts[k].doneAt = n - 1].rec]

\* the array Promise.all resolves with: one result per promise, in the
\* order of the promises
batch(ts) == [k \in 1..Len(ts) |-> ts[k].rec]

\* A slip: Promise.race / Promise.any instead of Promise.all
AnySettled == \E k \in 1..Len(tasks) : tasks[k].st = "fulfilled"

\* Promise.all fulfils when every promise has fulfilled
AllSettled == \A k \in 1..Len(tasks) : tasks[k].st = "fulfilled"

\* Promise.all rejects as soon as one promise rejects
AnyRejected == \E k \in 1..Len(tasks) : tasks[k].st = "rejected"

\* await Promise.all(...) settles; metas.push(...batch); sleep(150) begins
GroupSettle ==
    /\ pc = "group"
    /\ AnyRejected \/ AllSettled
    /\ IF AnyRejected
       THEN /\ RunRejected("scrape failed")
            /\ UNCHANGED metas
       ELSE /\ pc' = "sleep"
            /\ metas' = metas \o batch(tasks)
            /\ UNCHANGED <<exitCode, stderr>>
    /\ UNCHANGED <<enableImg, urls, i, tasks, now, files, started, settled, arg, ret>>

\* sleep(150) ends; i += MAX_CONCURRENCY; the loop test
Sleep ==
    /\ pc = "sleep"
    /\ i' = i + MAX_CONCURRENCY
    /\ EnterLoop(urls, i')
    /\ UNCHANGED <<enableImg, urls, metas, now, files, exitCode, stderr,
                   settled, arg, ret>>

\* fs.writeFile('rss.xml') settles; on success the news sitemap is built
\* (Date.now() is read) and its write begun
WriteRss ==
    /\ pc = "write_rss"
    /\ \E ok \in BOOLEAN :
          IF ok
          THEN /\ files' = ("rss.xml" :> buildRSS(rssItems(metas))) @@ files
               /\ pc' = "write_news"
               /\ now' \in Nows
               /\ UNCHANGED <<exitCode, stderr>>
          ELSE /\ RunRejected("write failed")
               /\ UNCHANGED <<files, now>>
    /\ UNCHANGED <<enableImg, urls, i, tasks, metas, started, settled, arg, ret>>

\* fs.writeFile('sitemap-news.xml') settles
WriteNews ==
    /\ pc = "write_news"
    /\ \E ok \in BOOLEAN :
          IF ok
          THEN /\ files' = ("sitemap-news.xml" :>
                              buildNewsSitemap(metas, now, NEWS_WINDOW_MS)) @@ files
               /\ pc' = IF enableImg THEN "write_img" ELSE "log"
               /\ UNCHANGED <<exitCode, stderr>>
          ELSE /\ RunRejected("write failed")
               /\ UNCHANGED files
    /\ UNCHANGED <<enableImg, urls, i, tasks, metas, now, started, settled, arg, ret>>

\* fs.writeFile('image-sitemap.xml') settles (ENABLE_IMAGE_SITEMAP only)
WriteImage ==
    /\ pc = "write_img"
    /\ \E ok \in BOOLEAN :
          IF ok
          THEN /\ files' = ("image-sitemap.xml" :> buildImageSitemap(metas)) @@ files
               /\ pc' = "log"
               /\ UNCHANGED <<exitCode, stderr>>
          ELSE /\ RunRejected("write failed")
               /\ UNCHANGED files
    /\ UNCHANGED <<enableImg, urls, i, tasks, metas, now, started, settled, arg, ret>>

\* the summary is logged, run() resolves and the process ends
Finish ==
    /\ pc = "log"
    /\ pc' = "exited"
    /\ exitCode' = 0
    /\ UNCHANGED <<enableImg, urls, i, tasks, metas, now, files, stderr,
                   started, settled, arg, ret>>

Init == PipeInit /\ arg = <<>> /\ ret = <<>>

Next ==
    \/ SitemapNetworkError
    \/ SitemapTimeout
    \/ SitemapResponse
    \/ SitemapBodyError
    \/ SitemapBody
    \/ PageNetworkError
    \/ PageResponse
    \/ PageBodyError
    \/ PageBody
    \/ PageTimeouts
    \/ GroupSettle
    \/ Sleep
    \/ WriteRss
    \/ WriteNews
    \/ WriteImage
    \/ Finish

Spec == Init /\ [][Next]_vars

\* Timers fire and promise continuations run: the event loop serves a due
\* timer and a settled promise.  Network events are not assumed to happen.
FairSpec ==
    /\ Spec
    /\ \A k \in 1..MAX_CONCURRENCY : WF_vars(PageTimeout(k))
    /\ WF_vars(GroupSettle)
    /\ WF_vars(Sleep)

(***************************************************************************)
(* The pure functions on their own: the argument is drawn from a bounded   *)
(* set, one action applies the function.  ret is <<>> before the call and  *)
(* <<result>> after it.  The variables of run() rest.                      *)
(***************************************************************************)
PipeIdle ==
    /\ pc = "idle"
    /\ enableImg = TRUE
    /\ urls = <<>>
    /\ i = 0
    /\ tasks = <<>>
    /\ metas = <<>>
    /\ now = 0
    /\ files = NoFiles
    /\ exitCode = -1
    /\ stderr = ""
    /\ started = {}
    /\ settled = [u \in {} |-> ""]

\* ---- esc ----
MaxTokens == 3
EscTokens ==
    { <<"&">>, <<"<">>, <<">">>, <<"\"">>, <<"'">>, <<"a">>, <<";">>, <<"#">>,
      <<"a", "m", "p", ";">>, <<"l", "t", ";">>, <<"g", "t", ";">>,
      <<"q", "u", "o", "t", ";">>, <<"a", "p", "o", "s", ";">> }
EscInputs == {Concat(ts) : ts \in SeqsUpTo(EscTokens, MaxTokens)}

EscInit == PipeIdle /\ arg \in EscInputs /\ ret = <<>>
EscCall ==
    /\ ret = <<>>
    /\ ret' = <<esc(arg)>>
    /\ UNCHANGED <<pipeVars, arg>>
EscNext == EscCall
EscSpec == EscInit /\ [][EscNext]_vars

\* ---- truncateWords ----
MaxTextLen == 5
MaxCap == 3
TextChars == {"a", "b", " ", "\t"}
TruncInputs == [str : SeqsUpTo(TextChars, MaxTextLen), max : 0..MaxCap]

TruncInit == PipeIdle /\ arg \in TruncInputs /\ ret = <<>>
TruncCall ==
    /\ ret = <<>>
    /\ ret' = <<truncateWords(arg.str, arg.max)>>
    /\ UNCHANGED <<pipeVars, arg>>
TruncNext == TruncCall
TruncSpec == TruncInit /\ [][TruncNext]_vars

\* ---- scrapeArticle on a fetched page ----
OgTitles == {None, Some(<<>>), Some(<<" ">>), Some(<<"T">>), Some(<<" ", "T", " ">>)}
Texts == {<<>>, <<" ">>, <<"U">>, <<"\t", "U", " ">>}
TitlePages ==
    {[EmptyPage EXCEPT !.ogTitle = o, !.h1 = h, !.titleTag = t] :
        o \in OgTitles, h \in Texts, t \in Texts}
ScrapeInputs == [url : PostUrls, page : TitlePages \cup PipePages]

ScrapeInit == PipeIdle /\ arg \in ScrapeInputs /\ ret = <<>>
ScrapeCall ==
    /\ ret = <<>>
    /\ ret' = <<scrapeParsed(arg.url, arg.page)>>
    /\ UNCHANGED <<pipeVars, arg>>
ScrapeNext == ScrapeCall
ScrapeSpec == ScrapeInit /\ [][ScrapeNext]_vars

(***************************************************************************)
(* Properties                                                              *)
(***************************************************************************)
IsDegraded(r, url) ==
    /\ r.url = url
    /\ r.title = url
    /\ r.desc = <<>>
    /\ ~r.date.has
    /\ ~r.lastmod.has
    /\ ~r.image.has
    /\ r.images = <<>>

Failures == {"error", "timeout_connect", "timeout_body"}

\* C1: scrapeArticle never throws.  No scrape promise is ever rejected and
\* the run never ends on a scrape error; every scrape that ended in a fetch,
\* status, body, timeout or parse failure yields the degraded record
\* (title = url, empty description, no date, no lastmod, no image, no
\* images), in the task and later in metas.
C1_ScrapeNeverThrows ==
    /\ \A k \in 1..Len(tasks) : tasks[k].st # "rejected"
    /\ stderr # "scrape failed"
    /\ \A k \in 1..Len(tasks) :
          (tasks[k].url \in DOMAIN settled /\ settled[tasks[k].url] \in Failures)
              => tasks[k].st = "fulfilled" /\ IsDegraded(tasks[k].rec, tasks[k].url)
    /\ \A k \in 1..Len(metas) :
          settled[metas[k].url] \in Failures => IsDegraded(metas[k], metas[k].url)

\* C1 witness: the first URL's fetch timed out, the third URL was scraped
\* successfully afterwards and the run ended with status 0.
C1_Witness ==
    /\ pc = "exited" /\ exitCode = 0
    /\ Len(urls) = 3 /\ Len(metas) = 3
    /\ settled[urls[1]] = "timeout_connect"
    /\ IsDegraded(metas[1], urls[1])
    /\ settled[urls[3]] = "ok"

InFlight == started \ DOMAIN settled
IndexOf(u) == CHOOSE k \in 1..Len(urls) : urls[k] = u
GroupOf(u) == (IndexOf(u) - 1) \div MAX_CONCURRENCY

\* C2: at most MAX_CONCURRENCY scrapes are started and not yet settled; a
\* scrape of a later group is started only when every scrape of every
\* earlier group has settled; a record is in metas only when every scrape
\* of its group has settled.
C2_BatchBarrier ==
    /\ Cardinality(InFlight) <= MAX_CONCURRENCY
    /\ started \subseteq Range(urls)
    /\ \A u \in started : \A v \in Range(urls) :
          GroupOf(v) < GroupOf(u) => v \in DOMAIN settled
    /\ \A k \in 1..Len(metas) : \A v \in Range(urls) :
          GroupOf(v) = GroupOf(metas[k].url) => v \in DOMAIN settled

\* C2 witness: the second group is in flight after a full first group has
\* been appended.
C2_Witness ==
    /\ pc = "group" /\ i = MAX_CONCURRENCY
    /\ Len(metas) = MAX_CONCURRENCY
    /\ InFlight # {}
    /\ \A u \in InFlight : GroupOf(u) = 1

AfterLoop ==
    \/ pc \in {"write_rss", "write_news", "write_img", "log"}
    \/ pc = "exited" /\ urls # <<>>

\* C3: metas follows the input order.  At all times the k-th record is the
\* record of the k-th URL, and once the loop is left there is exactly one
\* record per URL.
C3_InputOrder ==
    /\ Len(metas) <= Len(urls)
    /\ \A k \in 1..Len(metas) : metas[k].url = urls[k]
    /\ AfterLoop => Len(metas) = Len(urls)

\* C3 witness: a group whose second scrape completed before its first has
\* been appended and the list is complete.
C3_Witness ==
    /\ pc = "sleep" /\ Len(tasks) = 2
    /\ tasks[2].doneAt < tasks[1].doneAt
    /\ Len(metas) = Len(urls)
    /\ metas[1].url = urls[1] /\ metas[2].url = urls[2]

NewsEntries == files["sitemap-news.xml"]
Emitted(m) == \E k \in 1..Len(NewsEntries) : NewsEntries[k].loc = esc(m.url)

RssEntries == files["rss.xml"]
\* a sorts strictly before b: dated before undated, later date first
Precedes(a, b) ==
    \/ a.has /\ ~b.has
    \/ a.has /\ b.has /\ a.t > b.t

\* C5: rss.xml holds at most MAX_RSS_ITEMS items, the first MAX_RSS_ITEMS
\* of the records in descending date order with every undated record after
\* every dated one.
C5_RssOrder ==
    "rss.xml" \in DOMAIN files =>
        /\ Len(RssEntries) = Min(Len(metas), MAX_RSS_ITEMS)
        /\ \A j, k \in 1..Len(RssEntries) :
              j < k => ~Precedes(RssEntries[k].pubDate, RssEntries[j].pubDate)
        /\ \A m \in Range(metas) :
              (\A k \in 1..Len(RssEntries) : RssEntries[k].link # esc(m.url))
                  => \A k \in 1..Len(RssEntries) :
                        ~Precedes(m.date, RssEntries[k].pubDate)

NoTitleSignal(page) ==
    /\ ~page.ogTitle.has \/ Trim(page.ogTitle.v) = <<>>
    /\ Trim(page.h1) = <<>>
    /\ Trim(page.titleTag) = <<>>

\* C6: the scraped record's title is never empty, and it is the URL when
\* og:title, the first h1 and the title element are absent, empty or
\* whitespace-only.
C6_TitleNeverEmpty ==
    ret # <<>> =>
        /\ ret[1].title # <<>>
        /\ NoTitleSignal(arg.page) => ret[1].title = arg.url

Clean(str) == Trim(CollapseWs(str))
SpaceIn(s, from, to) == \E j \in from..to : j <= Len(s) /\ s[j] = " "

\* C7 as stated: the result is never longer than max and never splits a
\* word: a longer text is cut at a space and ends with the ellipsis, a
\* text within the cap is returned normalised.
C7_Original ==
    ret # <<>> =>
        LET r == ret[1]
            clean == Clean(arg.str)
            body == SubSeq(r, 1, Len(r) - 1)
        IN  /\ Len(r) <= arg.max
            /\ Len(clean) <= arg.max => r = clean
            /\ Len(clean) > arg.max =>
                  /\ r[Len(r)] = ELLIPSIS
                  /\ body = SubSeq(clean, 1, Len(body))
                  /\ clean[Len(body) + 1] = " "

\* C7 as amended: the result is at most max + 1 long (the text kept plus
\* the ellipsis).  A text within the cap is returned normalised.  A longer
\* one is cut at the last space among its first max + 1 characters and the
\* ellipsis appended, or, when these hold no space, after max characters.
C7_TruncateWords ==
    ret # <<>> =>
        LET r == ret[1]
            clean == Clean(arg.str)
            body == SubSeq(r, 1, Len(r) - 1)
        IN  /\ Len(r) <= arg.max + 1
            /\ Len(clean) <= arg.max => r = clean
            /\ Len(clean) > arg.max =>
                  /\ r[Len(r)] = ELLIPSIS
                  /\ body = SubSeq(clean, 1, Len(body))
                  /\ IF SpaceIn(clean, 1, arg.max + 1)
                     THEN /\ clean[Len(body) + 1] = " "
                          /\ ~SpaceIn(clean, Len(body) + 2, arg.max + 1)
                     ELSE Len(body) = arg.max

\* C7 witness: "ab ab" with cap 2 is cut at its space and is 3 long.
C7_Witness ==
    /\ ret = << <<"a", "b", ELLIPSIS>> >>
    /\ arg.str = <<"a", "b", " ", "a", "b">>
    /\ arg.max = 2

StartsWith(s, pre) == Len(s) >= Len(pre) /\ SubSeq(s, 1, Len(pre)) = pre
Drop(s, n) == SubSeq(s, n + 1, Len(s))

\* what an XML parser reads back: one left-to-right pass over the five
\* predefined entities
RECURSIVE unescapeXml(_)
unescapeXml(x) ==
    IF x = <<>> THEN <<>>
    ELSE IF StartsWith(x, AMP) THEN <<"&">> \o unescapeXml(Drop(x, Len(AMP)))
    ELSE IF StartsWith(x, LT) THEN <<"<">> \o unescapeXml(Drop(x, Len(LT)))
    ELSE IF StartsWith(x, GT) THEN <<">">> \o unescapeXml(Drop(x, Len(GT)))
    ELSE IF StartsWith(x, QUOT) THEN <<"\"">> \o unescapeXml(Drop(x, Len(QUOT)))
    ELSE IF StartsWith(x, APOS) THEN <<"'">> \o unescapeXml(Drop(x, Len(APOS)))
    ELSE <<Head(x)>> \o unescapeXml(Tail(x))

Entities == {AMP, LT, GT, QUOT, APOS}
EscImages == {esc(t) : t \in EscInputs}

\* C8: unescaping esc(s) gives s back; esc is injective on the inputs; its
\* output holds none of < > " ' and each & in it starts an entity.
C8_EscRoundTrip ==
    /\ Cardinality(EscImages) = Cardinality(EscInputs)
    /\ ret # <<>> =>
          LET e == ret[1]
          IN  /\ unescapeXml(e) = arg
              /\ \A k \in 1..Len(e) : e[k] \notin {"<", ">", "\"", "'"}
              /\ \A k \in 1..Len(e) :
                    e[k] = "&" => \E en \in Entities : StartsWith(Drop(e, k - 1), en)

\* C8 witness: the text "&amp;<" has been escaped to "&amp;amp;&lt;".
C8_Witness ==
    /\ arg = <<"&", "a", "m", "p", ";", "<">>
    /\ ret = << <<"&", "a", "m", "p", ";", "a", "m", "p", ";", "&", "l", "t", ";">> >>

SitemapErrors == {"fetch failed", "AbortError", "GET status", "body failed"}
Written(n) == n \in DOMAIN files

\* C9: a failed sitemap fetch ends the run at once with status 1 and the
\* error printed, no scrape started, no file written and nothing further
\* to do; a failed file write ends it with status 1; a run that ends
\* without an error has written its files and has status 0.
C9_ExitStatus ==
    /\ pc # "exited" => exitCode = -1 /\ stderr = ""
    /\ pc = "exited" => /\ exitCode \in {0, 1}
                        /\ exitCode = 1 <=> stderr # ""
                        /\ ~ENABLED Next
    /\ stderr \in SitemapErrors =>
          /\ pc = "exited" /\ exitCode = 1
          /\ started = {} /\ urls = <<>> /\ metas = <<>>
          /\ files = NoFiles
    /\ stderr = "write failed" => pc = "exited" /\ exitCode = 1
    /\ (pc = "exited" /\ stderr = "") =>
          /\ exitCode = 0
          /\ Written("rss.xml") /\ Written("sitemap-news.xml")
          /\ Written("image-sitemap.xml") <=> enableImg

\* C9 witness: the sitemap fetch was aborted by the timer and the process
\* has ended with status 1.
C9_Witness ==
    /\ pc = "exited" /\ stderr = "AbortError" /\ exitCode = 1
    /\ files = NoFiles /\ started = {}

\* C10: with timers and continuations served, every group of scrapes
\* settles and the batch loop ends: the run reaches the write of rss.xml.
C10_LoopTerminates ==
    /\ (pc = "group") ~> (pc = "sleep")
    /\ (pc = "group") ~> (pc = "write_rss")

\* C10 witness: a scrape whose body read hung was settled by the timer and
\* the run has reached the write of rss.xml.
C10_Witness ==
    /\ pc = "write_rss"
    /\ \E u \in DOMAIN settled : settled[u] = "timeout_body"

====
